---- MODULE Spec2Model ----
(***************************************************************************)
(* Helios inference server (src/server/main.py, src/server/inference.py):  *)
(* the process-wide inference_engine reference, the CodeLlamaInference     *)
(* instances it has pointed to, the background tasks that initialize them, *)
(* and the HTTP handlers /health, /status, /complete and /restart.         *)
(*                                                                         *)
(* The server runs on one asyncio event loop: a handler or task runs       *)
(* without interruption from one await of the backend to the next, so      *)
(* every action below is one such synchronous segment.  The ollama backend *)
(* is outside the repository: each awaited call (list, pull, generate)     *)
(* either returns or raises, chosen by the environment.                    *)
(***************************************************************************)
EXTENDS Naturals, Integers, Sequences, FiniteSets, TLC

\* Bounds of the model: CodeLlamaInference instances constructed and POST
\* /complete requests received in one run.
MaxInst == 2
MaxReq == 1

None == 0      \* the value None of inference_engine (instances are 1..Len(heap))

VARIABLES
    app_state,         \* "imported" | "no_lifespan" | "startup" | "serving"
    inference_engine,  \* main.py global: None or an index into heap
    heap,              \* every CodeLlamaInference constructed so far, in order
    restart_tasks,     \* restart_model background tasks added and not yet started
    requests,          \* the /complete requests received so far, in order
    last,              \* what the most recent step was and what it answered
    seen,              \* probe answers observed so far (recorded only under SpecObs)
    job,               \* one generate_completion() call in detail (SpecCompletion)
    text               \* one text through _post_process_completion() (SpecText)

vars == <<app_state, inference_engine, heap, restart_tasks, requests, last, seen,
          job, text>>

----------------------------------------------------------------------------
(* CodeLlamaInference                                                      *)

\* pc of an instance: where its initialize() coroutine stands.
\*   "new"       constructed, initialize() not called
\*   "list"      awaiting client.list()
\*   "pull"      awaiting client.pull() inside pull_model()
\*   "generate"  awaiting the validation client.generate()
\*   "done"      initialize() has returned
\* log: the backend calls of initialize() that have completed, in order, each
\* <<call, outcome>>.  origin: the statement that constructed the instance.
\* initialize_calls: how many times initialize() has been called on it.

\* Variant of __init__ that starts with model_loaded True.
CodeLlamaInference_loaded(origin) ==
    [model_loaded |-> TRUE, pc |-> "new", log |-> <<>>, origin |-> origin,
     initialize_calls |-> 0]

\* __init__: model_loaded starts False.
CodeLlamaInference(origin) ==
    [model_loaded |-> FALSE, pc |-> "new", log |-> <<>>, origin |-> origin,
     initialize_calls |-> 0]

\* Variant of is_model_loaded() with model_loaded shared by all instances.
is_model_loaded_any(m) == \E k \in 1..Len(heap) : heap[k].model_loaded

\* Variant of is_model_loaded() that answers True for every instance.
is_model_loaded_true(m) == TRUE

\* is_model_loaded(): returns self.model_loaded.
is_model_loaded(m) == heap[m].model_loaded

\* Variant in which the call of initialize() is lost: nothing is issued.
initialize_call_skipped(inst) == inst

\* Variant of initialize() that sets model_loaded before the backend is asked.
initialize_call_eager(inst) ==
    [inst EXCEPT !.pc = "list", !.model_loaded = TRUE, !.initialize_calls = @ + 1]

\* initialize(), from the call to the first await: client.list() is issued.
initialize_call(inst) == [inst EXCEPT !.pc = "list", !.initialize_calls = @ + 1]

\* Variant of initialize() that pulls the model whether or not it is listed.
initialize_listed_always_pull(inst, present) ==
    [inst EXCEPT !.pc = "pull",
                 !.log = Append(@, <<"list", IF present THEN "present" ELSE "absent">>)]

\* client.list() returned; `present` says whether model_name is among the names.
\* Absent: pull_model() is called and awaits client.pull(); present: the
\* validation generate is issued.
initialize_listed(inst, present) ==
    [inst EXCEPT !.pc = IF present THEN "generate" ELSE "pull",
                 !.log = Append(@, <<"list", IF present THEN "present" ELSE "absent">>)]

\* pull_model(): client.pull() returned (True) or raised (caught, logged, False).
\* initialize() does not look at the value returned: the validation generate is
\* issued either way.
initialize_pulled(inst, ok) ==
    [inst EXCEPT !.pc = "generate",
                 !.log = Append(@, <<"pull", IF ok THEN "ok" ELSE "raise">>)]

\* The validation client.generate() returned: model_loaded = True, return True.
initialize_validated(inst) ==
    [inst EXCEPT !.pc = "done", !.model_loaded = TRUE,
                 !.log = Append(@, <<"generate", "ok">>)]

\* except Exception in initialize(): model_loaded = False, return False.
initialize_except(inst, call) ==
    [inst EXCEPT !.pc = "done", !.model_loaded = FALSE,
                 !.log = Append(@, <<call, "raise">>)]

----------------------------------------------------------------------------
(* Text: a Python str is modelled as the sequence of its characters        *)

NL == "\n"
\* The grave accent character (U+0060), which a TLA+ string cannot hold.
Backtick == "U+0060"
Whitespace == {" ", NL, "\t"}

\* The number of whitespace characters s starts with, and ends with.
LeadingSpace(s) ==
    CHOOSE n \in 0..Len(s) :
        /\ \A i \in 1..n : s[i] \in Whitespace
        /\ n = Len(s) \/ s[n + 1] \notin Whitespace

TrailingSpace(s) ==
    CHOOSE n \in 0..Len(s) :
        /\ \A i \in (Len(s) - n + 1)..Len(s) : s[i] \in Whitespace
        /\ n = Len(s) \/ s[Len(s) - n] \notin Whitespace

\* str.strip()
strip(s) ==
    IF LeadingSpace(s) = Len(s) THEN <<>>
    ELSE SubSeq(s, LeadingSpace(s) + 1, Len(s) - TrailingSpace(s))

\* The positions at which a occurs in s.
Occurrences(s, a) ==
    {i \in 1..(Len(s) - Len(a) + 1) : SubSeq(s, i, i + Len(a) - 1) = a}

\* str.replace(a, ""): the leftmost occurrence of a is removed, and the
\* search goes on in what follows it.
RECURSIVE remove(_, _)
remove(s, a) ==
    IF Occurrences(s, a) = {} THEN s
    ELSE LET i == CHOOSE k \in Occurrences(s, a) : \A j \in Occurrences(s, a) : k <= j
         IN SubSeq(s, 1, i - 1) \o remove(SubSeq(s, i + Len(a), Len(s)), a)

\* The artifacts list of _post_process_completion, in its order.
artifacts == <<
    <<"<", "M", "I", "D", ">">>,
    <<"<", "/", "M", "I", "D", ">">>,
    <<"<", "S", "U", "F", ">">>,
    <<"<", "/", "S", "U", "F", ">">>,
    <<"<", "P", "R", "E", ">">>,
    <<"<", "/", "P", "R", "E", ">">>,
    <<Backtick, Backtick, Backtick, "p", "y", "t", "h", "o", "n">>,
    <<Backtick, Backtick, Backtick, "j", "a", "v", "a", "s", "c", "r", "i", "p", "t">>,
    <<Backtick, Backtick, Backtick, "t", "y", "p", "e", "s", "c", "r", "i", "p", "t">>,
    <<Backtick, Backtick, Backtick>>,
    <<"<", "c", "o", "d", "e", ">">>,
    <<"<", "/", "c", "o", "d", "e", ">">> >>

\* for artifact in artifacts: completion = completion.replace(artifact, "")
RECURSIVE remove_each(_, _)
remove_each(s, list) ==
    IF list = <<>> THEN s ELSE remove_each(remove(s, Head(list)), Tail(list))

\* str.split("\n")
RECURSIVE split_lines(_)
split_lines(s) ==
    IF \A i \in 1..Len(s) : s[i] # NL THEN <<s>>
    ELSE LET i == CHOOSE k \in 1..Len(s) : s[k] = NL /\ \A j \in 1..(k - 1) : s[j] # NL
         IN <<SubSeq(s, 1, i - 1)>> \o split_lines(SubSeq(s, i + 1, Len(s)))

\* "\n".join(lines)
RECURSIVE join_lines(_)
join_lines(lines) ==
    IF lines = <<>> THEN <<>>
    ELSE IF Len(lines) = 1 THEN lines[1]
    ELSE lines[1] \o <<NL>> \o join_lines(Tail(lines))

\* Variant of the loop that goes on after the first blank line.
RECURSIVE clean_lines_no_break(_, _)
clean_lines_no_break(lines, cleaned) ==
    IF lines = <<>> THEN cleaned
    ELSE IF strip(Head(lines)) # <<>>
         THEN clean_lines_no_break(Tail(lines), Append(cleaned, Head(lines)))
    ELSE IF cleaned # <<>> /\ strip(cleaned[Len(cleaned)]) # <<>>
         THEN clean_lines_no_break(Tail(lines), Append(cleaned, <<>>))
    ELSE clean_lines_no_break(Tail(lines), cleaned)

\* The loop over the lines: a line with content is kept; a blank line after
\* kept content is kept as an empty line and ends the loop; other blank lines are skipped.
RECURSIVE clean_lines(_, _)
clean_lines(lines, cleaned) ==
    IF lines = <<>> THEN cleaned
    ELSE IF strip(Head(lines)) # <<>>
         THEN clean_lines(Tail(lines), Append(cleaned, Head(lines)))
    ELSE IF cleaned # <<>> /\ strip(cleaned[Len(cleaned)]) # <<>>
         THEN Append(cleaned, <<>>)
    ELSE clean_lines(Tail(lines), cleaned)

\* _post_process_completion(completion, request)
post_process_completion(completion) ==
    strip(join_lines(clean_lines(split_lines(remove_each(strip(completion), artifacts)),
                                 <<>>)))

----------------------------------------------------------------------------
(* Responses and bookkeeping                                               *)

Probes == {"health", "status"}

\* The values of job and text while the server as a whole is followed.
NoJob == [pc |-> "none"]
NoText == [pc |-> "none"]

\* The value of last after a step that answers no HTTP request.
NoAnswer ==
    [op |-> "none", code |-> 0, status |-> "", model_loaded |-> FALSE, engine |-> None]

\* The ModelState of the specification, read off an instance's fields.
ModelState(inst) ==
    IF inst.model_loaded THEN "Ready"
    ELSE IF inst.pc = "new" THEN "Uninitialized"
    ELSE IF inst.pc = "done" THEN "Failed"
    ELSE "Loading"

CurrentState ==
    IF inference_engine = None THEN "NoEngine" ELSE ModelState(heap[inference_engine])

\* HTTP requests are served once the ASGI server has completed startup, or by a
\* client that never runs the lifespan (test_main.py: TestClient(app)).
Serving == app_state \in {"serving", "no_lifespan"}

Frame_http == UNCHANGED <<app_state, inference_engine, heap, restart_tasks, requests>>

----------------------------------------------------------------------------
(* main.py                                                                 *)

\* Variant of lifespan() without `global inference_engine`: the new engine is
\* bound to a local name.
EngineAfterLifespan_local(new) == inference_engine

\* lifespan(), up to the yield: construct the engine, create the startup task.
EngineAfterLifespan(new) == new

lifespan ==
    /\ app_state = "imported"
    /\ heap' = Append(heap, CodeLlamaInference("lifespan"))
    /\ inference_engine' = EngineAfterLifespan(Len(heap'))
    /\ app_state' = "startup"
    /\ last' = NoAnswer
    /\ UNCHANGED <<restart_tasks, requests>>

\* initialize_model(): the task created by lifespan runs before the server accepts
\* a connection (asyncio runs ready tasks in order).  It reads the global and calls
\* initialize() on it; an exception (None has no initialize) is caught and logged.
initialize_model ==
    /\ app_state = "startup"
    /\ heap' = IF inference_engine = None THEN heap
               ELSE [heap EXCEPT ![inference_engine] = initialize_call(@)]
    /\ app_state' = "serving"
    /\ last' = NoAnswer
    /\ UNCHANGED <<inference_engine, restart_tasks, requests>>

\* Variant of /health that answers 503 while the model is not loaded.
health_check_strict ==
    /\ Serving
    /\ LET loaded == IF inference_engine # None
                     THEN is_model_loaded(inference_engine) ELSE FALSE
       IN last' = [op |-> "health", code |-> IF loaded THEN 200 ELSE 503,
                   status |-> IF loaded THEN "healthy" ELSE "unhealthy",
                   model_loaded |-> loaded, engine |-> inference_engine]
    /\ Frame_http

\* GET /health
health_check ==
    /\ Serving
    /\ last' = [op |-> "health", code |-> 200, status |-> "healthy",
                model_loaded |-> IF inference_engine # None
                                 THEN is_model_loaded(inference_engine) ELSE FALSE,
                engine |-> inference_engine]
    /\ Frame_http

\* GET /status
get_status ==
    /\ Serving
    /\ last' = [op |-> "status", code |-> 200, status |-> "running",
                model_loaded |-> IF inference_engine # None
                                 THEN is_model_loaded(inference_engine) ELSE FALSE,
                engine |-> inference_engine]
    /\ Frame_http

\* POST /complete, from the request to the first await.  Both guards answer 503;
\* past them generate_completion() is entered, whose own check of model_loaded
\* raises RuntimeError (caught below it, answered 500) or lets client.generate()
\* be issued: the request then waits for the backend on the engine it was given.
get_completion ==
    /\ Serving
    /\ LET e == inference_engine
           ready == CurrentState = "Ready"
           code == IF e = None THEN 503
                   ELSE IF ~is_model_loaded(e) THEN 503
                   ELSE IF ~heap[e].model_loaded THEN 500
                   ELSE 0
       IN /\ requests' = Append(requests,
                [engine |-> e, ready |-> ready, gen_calls |-> IF code = 0 THEN 1 ELSE 0,
                 status |-> IF code = 0 THEN "pending" ELSE "answered", code |-> code,
                 served_by |-> None, error |-> "", detail |-> <<>>])
          /\ last' = IF code = 0 THEN NoAnswer
                     ELSE [op |-> "complete", code |-> code, status |-> "",
                           model_loaded |-> FALSE,
                           engine |-> e]
    /\ UNCHANGED <<app_state, inference_engine, heap, restart_tasks>>

\* Variant of generate_completion() that goes back to the global after the await.
awaiting_engine_global(r) == inference_engine

\* generate_completion() is a method: after the await it goes on with `self`, the
\* instance the request was given at dispatch; the global is not read again.
awaiting_engine(r) == requests[r].engine

\* client.generate() of a request returned: the response is built, 200.
completion_returns(r) ==
    /\ requests[r].status = "pending"
    /\ requests' = [requests EXCEPT ![r].status = "answered", ![r].code = 200,
                                    ![r].served_by = awaiting_engine(r)]
    /\ last' = [op |-> "complete", code |-> 200, status |-> "", model_loaded |-> FALSE,
                engine |-> awaiting_engine(r)]
    /\ UNCHANGED <<app_state, inference_engine, heap, restart_tasks>>

\* What the backend's generate can raise (the exception's message).
BackendErrors == {"BackendUnavailable", "GenerationTimeout", "GenerationError"}

\* Variant of the handler that calls generate_completion() once more before it
\* gives up.
completion_raises_retry(r, e) ==
    /\ requests[r].status = "pending"
    /\ requests' = IF requests[r].gen_calls < 2
                   THEN [requests EXCEPT ![r].gen_calls = @ + 1]
                   ELSE [requests EXCEPT ![r].status = "answered", ![r].code = 500,
                                         ![r].served_by = awaiting_engine(r),
                                         ![r].error = e,
                                         ![r].detail = <<"Failed to generate completion: ", e>>]
    /\ last' = NoAnswer
    /\ UNCHANGED <<app_state, inference_engine, heap, restart_tasks>>

\* Variant of generate_completion() that marks the model unloaded when the
\* backend call raises.
completion_raises_unloads(r, e) ==
    /\ requests[r].status = "pending"
    /\ requests' = [requests EXCEPT ![r].status = "answered", ![r].code = 500,
                                    ![r].served_by = awaiting_engine(r),
                                    ![r].error = e,
                                    ![r].detail = <<"Failed to generate completion: ", e>>]
    /\ heap' = [heap EXCEPT ![awaiting_engine(r)].model_loaded = FALSE]
    /\ last' = [op |-> "complete", code |-> 500, status |-> "", model_loaded |-> FALSE,
                engine |-> awaiting_engine(r)]
    /\ UNCHANGED <<app_state, inference_engine, restart_tasks>>

\* Variant of the handler that reports a backend failure as 503.
completion_raises_unavailable(r, e) ==
    /\ requests[r].status = "pending"
    /\ requests' = [requests EXCEPT ![r].status = "answered", ![r].code = 503,
                                    ![r].served_by = awaiting_engine(r),
                                    ![r].error = e,
                                    ![r].detail = <<"Model not loaded">>]
    /\ last' = [op |-> "complete", code |-> 503, status |-> "", model_loaded |-> FALSE,
                engine |-> awaiting_engine(r)]
    /\ UNCHANGED <<app_state, inference_engine, heap, restart_tasks>>

\* client.generate() of a request raised e: logged and re-raised by
\* generate_completion(), caught by get_completion(), answered 500 with
\* detail "Failed to generate completion: " + str(e).
completion_raises(r, e) ==
    /\ requests[r].status = "pending"
    /\ requests' = [requests EXCEPT ![r].status = "answered", ![r].code = 500,
                                    ![r].served_by = awaiting_engine(r),
                                    ![r].error = e,
                                    ![r].detail = <<"Failed to generate completion: ", e>>]
    /\ last' = [op |-> "complete", code |-> 500, status |-> "", model_loaded |-> FALSE,
                engine |-> awaiting_engine(r)]
    /\ UNCHANGED <<app_state, inference_engine, heap, restart_tasks>>

\* Variant of /restart that awaits restart_model() before it answers: the new
\* engine is constructed and swapped in by the handler itself.
restart_server_inline ==
    /\ Serving
    /\ heap' = Append(heap, initialize_call(CodeLlamaInference("restart")))
    /\ inference_engine' = Len(heap')
    /\ last' = [op |-> "restart", code |-> 200, status |-> "", model_loaded |-> FALSE,
                engine |-> None]
    /\ UNCHANGED <<app_state, restart_tasks, requests>>

\* POST /restart: add restart_model as a background task and answer.
restart_server ==
    /\ Serving
    /\ restart_tasks' = restart_tasks + 1
    /\ last' = [op |-> "restart", code |-> 200, status |-> "", model_loaded |-> FALSE,
                engine |-> None]
    /\ UNCHANGED <<app_state, inference_engine, heap, requests>>

\* Variant of restart_model() that calls initialize() again on the current
\* manager when there is one, and constructs an instance only when there is none.
restart_model_reuse ==
    /\ restart_tasks > 0
    /\ restart_tasks' = restart_tasks - 1
    /\ last' = NoAnswer
    /\ IF inference_engine # None
       THEN /\ heap' = [heap EXCEPT ![inference_engine] = initialize_call(@)]
            /\ UNCHANGED inference_engine
       ELSE /\ heap' = Append(heap, initialize_call(CodeLlamaInference("restart")))
            /\ inference_engine' = Len(heap')
    /\ UNCHANGED <<app_state, requests>>

\* Variant of restart_model() that does nothing while the current manager has
\* not finished its initialize().
restart_model_unless_loading ==
    /\ restart_tasks > 0
    /\ restart_tasks' = restart_tasks - 1
    /\ last' = NoAnswer
    /\ IF inference_engine # None /\ heap[inference_engine].pc # "done"
       THEN UNCHANGED <<heap, inference_engine>>
       ELSE /\ heap' = Append(heap, initialize_call(CodeLlamaInference("restart")))
            /\ inference_engine' = Len(heap')
    /\ UNCHANGED <<app_state, requests>>

\* Variant of restart_model() without `global inference_engine`.
EngineAfterRestart_local(new) == inference_engine

\* restart_model(), from its start to the first await: construct a new engine,
\* assign it to the global, call its initialize().
EngineAfterRestart(new) == new

restart_model ==
    /\ restart_tasks > 0
    /\ restart_tasks' = restart_tasks - 1
    /\ heap' = Append(heap, initialize_call(CodeLlamaInference("restart")))
    /\ inference_engine' = EngineAfterRestart(Len(heap'))
    /\ last' = NoAnswer
    /\ UNCHANGED <<app_state, requests>>

\* Variant of the tasks that assign their own instance to the global once its
\* initialize() has returned.
engine_after_initialize_self(m) == m

\* Variant of restart_model() that puts the previous engine back when the new
\* one did not load.
engine_after_initialize_rollback(m) ==
    IF m = inference_engine /\ m > 1 /\ ~heap'[m].model_loaded
    THEN m - 1 ELSE inference_engine

\* initialize_model() and restart_model() after initialize() has returned: they log
\* what happened; the global is not assigned.
engine_after_initialize(m) == inference_engine

----------------------------------------------------------------------------
(* The backend answers an awaited call of initialize() on instance m       *)

list_returns(m, present) ==
    /\ heap[m].pc = "list"
    /\ heap' = [heap EXCEPT ![m] = initialize_listed(@, present)]
    /\ last' = NoAnswer
    /\ UNCHANGED <<app_state, inference_engine, restart_tasks, requests>>

list_raises(m) ==
    /\ heap[m].pc = "list"
    /\ heap' = [heap EXCEPT ![m] = initialize_except(@, "list")]
    /\ inference_engine' = engine_after_initialize(m)
    /\ last' = NoAnswer
    /\ UNCHANGED <<app_state, restart_tasks, requests>>

pull_returns(m) ==
    /\ heap[m].pc = "pull"
    /\ heap' = [heap EXCEPT ![m] = initialize_pulled(@, TRUE)]
    /\ last' = NoAnswer
    /\ UNCHANGED <<app_state, inference_engine, restart_tasks, requests>>

pull_raises(m) ==
    /\ heap[m].pc = "pull"
    /\ heap' = [heap EXCEPT ![m] = initialize_pulled(@, FALSE)]
    /\ last' = NoAnswer
    /\ UNCHANGED <<app_state, inference_engine, restart_tasks, requests>>

validate_returns(m) ==
    /\ heap[m].pc = "generate"
    /\ heap' = [heap EXCEPT ![m] = initialize_validated(@)]
    /\ inference_engine' = engine_after_initialize(m)
    /\ last' = NoAnswer
    /\ UNCHANGED <<app_state, restart_tasks, requests>>

validate_raises(m) ==
    /\ heap[m].pc = "generate"
    /\ heap' = [heap EXCEPT ![m] = initialize_except(@, "generate")]
    /\ inference_engine' = engine_after_initialize(m)
    /\ last' = NoAnswer
    /\ UNCHANGED <<app_state, restart_tasks, requests>>

----------------------------------------------------------------------------
(* Specifications                                                          *)

\* The module has been imported: inference_engine = None, nothing constructed.
\* Either the ASGI server will run the lifespan, or a client serves the app
\* without it.
Init ==
    /\ app_state \in {"imported", "no_lifespan"}
    /\ inference_engine = None
    /\ heap = <<>>
    /\ restart_tasks = 0
    /\ requests = <<>>
    /\ last = NoAnswer
    /\ seen = {}
    /\ job = NoJob
    /\ text = NoText

\* Steps of the server leave the detailed views alone.
Quiet == UNCHANGED <<seen, job, text>>

\* One step of the program; the bounds stop new requests and restarts.
Next ==
    \/ (lifespan) /\ Quiet
    \/ (initialize_model) /\ Quiet
    \/ (health_check) /\ Quiet
    \/ (get_status) /\ Quiet
    \/ (Len(requests) < MaxReq /\ get_completion) /\ Quiet
    \/ (Len(heap) + restart_tasks < MaxInst /\ restart_server) /\ Quiet
    \/ (restart_model) /\ Quiet
    \/ (\E r \in 1..Len(requests) : completion_returns(r)) /\ Quiet
    \/ (\E r \in 1..Len(requests), e \in BackendErrors : completion_raises(r, e)) /\ Quiet
    \/ (\E m \in 1..Len(heap), present \in BOOLEAN : list_returns(m, present)) /\ Quiet
    \/ (\E m \in 1..Len(heap) : list_raises(m)) /\ Quiet
    \/ (\E m \in 1..Len(heap) : pull_returns(m)) /\ Quiet
    \/ (\E m \in 1..Len(heap) : pull_raises(m)) /\ Quiet
    \/ (\E m \in 1..Len(heap) : validate_returns(m)) /\ Quiet
    \/ (\E m \in 1..Len(heap) : validate_raises(m)) /\ Quiet

Spec == Init /\ [][Next]_vars

\* The same program watched by a client that keeps every probe answer together
\* with the state the current manager was in when it was given.
Observe ==
    IF last'.op \in Probes
    THEN {[model_loaded |-> last'.model_loaded, state |-> CurrentState']}
    ELSE {}

Watch == seen' = seen \cup Observe /\ UNCHANGED <<job, text>>

NextObs ==
    \/ (lifespan) /\ Watch
    \/ (initialize_model) /\ Watch
    \/ (health_check) /\ Watch
    \/ (get_status) /\ Watch
    \/ (Len(requests) < MaxReq /\ get_completion) /\ Watch
    \/ (Len(heap) + restart_tasks < MaxInst /\ restart_server) /\ Watch
    \/ (restart_model) /\ Watch
    \/ (\E r \in 1..Len(requests) : completion_returns(r)) /\ Watch
    \/ (\E r \in 1..Len(requests), e \in BackendErrors : completion_raises(r, e)) /\ Watch
    \/ (\E m \in 1..Len(heap), present \in BOOLEAN : list_returns(m, present)) /\ Watch
    \/ (\E m \in 1..Len(heap) : list_raises(m)) /\ Watch
    \/ (\E m \in 1..Len(heap) : pull_returns(m)) /\ Watch
    \/ (\E m \in 1..Len(heap) : pull_raises(m)) /\ Watch
    \/ (\E m \in 1..Len(heap) : validate_returns(m)) /\ Watch
    \/ (\E m \in 1..Len(heap) : validate_raises(m)) /\ Watch

SpecObs == Init /\ [][NextObs]_vars

----------------------------------------------------------------------------
(* Properties                                                              *)

Instances == 1..Len(heap)
Loading(inst) == inst.pc \in {"list", "pull", "generate"}
Finished(inst) == inst.pc = "done"
Has(inst, entry) == \E i \in 1..Len(inst.log) : inst.log[i] = entry
Validated(inst) == Has(inst, <<"generate", "ok">>)
Raised(inst) == \E i \in 1..Len(inst.log) : inst.log[i][2] = "raise"
Constructed(inst) ==
    /\ DOMAIN inst = {"model_loaded", "pc", "log", "origin", "initialize_calls"}
    /\ inst.model_loaded \in BOOLEAN
    /\ inst.pc \in {"new", "list", "pull", "generate", "done"}

\* The startup initialize() (of the instance lifespan constructed) is in progress.
StartupLoading(m) ==
    /\ app_state = "serving"
    /\ m \in Instances
    /\ heap[m].origin = "lifespan"
    /\ Loading(heap[m])

\* C1: a completion request dispatched while the current manager is not Ready
\* (no engine, Loading, Failed, or a new instance still initializing after a
\* restart) is answered 503 and the backend's generate is not called for it.
C1_NotReadyRefused ==
    \A r \in 1..Len(requests) :
        ~requests[r].ready =>
            /\ requests[r].status = "answered"
            /\ requests[r].code = 503
            /\ requests[r].gen_calls = 0

\* A request refused by an instance that a restart swapped in for a Ready one.
C1_Witness ==
    \E r \in 1..Len(requests) :
        /\ ~requests[r].ready
        /\ requests[r].code = 503
        /\ requests[r].engine = 2
        /\ heap[2].origin = "restart"
        /\ heap[1].model_loaded

\* C2: when initialize() finds the model absent and the pull fails, that
\* initialize() ends with model_loaded false.
C2_PullFailureEndsFailed ==
    \A m \in Instances :
        (Finished(heap[m]) /\ Has(heap[m], <<"pull", "raise">>)) => ~heap[m].model_loaded

\* C3: an instance is Ready only if its own initialize() has finished with a
\* validation generation that returned; nothing else sets model_loaded.
C3_ReadyOnlyByOwnValidation ==
    \A m \in Instances :
        heap[m].model_loaded =>
            /\ Finished(heap[m])
            /\ Len(heap[m].log) > 0
            /\ heap[m].log[Len(heap[m].log)] = <<"generate", "ok">>

\* The second instance is Ready, the first has failed, and a request was served.
C3_Witness ==
    /\ Len(heap) = 2
    /\ heap[2].model_loaded
    /\ Finished(heap[1]) /\ ~heap[1].model_loaded
    /\ \E r \in 1..Len(requests) : requests[r].code = 200

\* C4: any call of initialize() raising (list, pull or the validation generate)
\* leaves the instance Failed, and the gateway goes on answering the probes with
\* 200 and completion requests to a manager that is not Ready with 503.
C4_FailuresEndFailed ==
    /\ \A m \in Instances :
           (Finished(heap[m]) /\ Raised(heap[m])) => ModelState(heap[m]) = "Failed"
    /\ last.op \in Probes => last.code = 200
    /\ \A r \in 1..Len(requests) : ~requests[r].ready => requests[r].code = 503

\* C5 as claimed: while the startup initialize() is in progress every probe is
\* answered 200 with model_loaded false.
C5_LoadingReportsUnloaded ==
    \A m \in Instances :
        (StartupLoading(m) /\ last.op \in Probes) =>
            (last.code = 200 /\ ~last.model_loaded)

\* C5, amended: while the startup initialize() is in progress the probes can be
\* answered, are answered 200, and report model_loaded false as long as the
\* startup instance is the current manager.
C5_LoadingReportsUnloadedWhileCurrent ==
    \A m \in Instances :
        StartupLoading(m) =>
            /\ ENABLED health_check
            /\ ENABLED get_status
            /\ last.op \in Probes =>
                   /\ last.code = 200
                   /\ last.engine = m => ~last.model_loaded

\* /status answered while the startup instance is current and awaits the backend.
C5_Witness ==
    /\ StartupLoading(1)
    /\ heap[1].pc = "generate"
    /\ last.op = "status"
    /\ last.engine = 1

\* C6 as claimed: a probe answer given in state Loading differs from every probe
\* answer given in state Failed or Uninitialized.
C6_LoadingDistinguishable ==
    \A o1, o2 \in seen :
        (o1.state = "Loading" /\ o2.state \in {"Failed", "Uninitialized"}) =>
            o1.model_loaded # o2.model_loaded

\* C6, amended: every probe answer carries model_loaded, true exactly when the
\* current manager was Ready; Loading and Failed are both answered false.
C6_ReportsLoadedTruthfully ==
    \A o \in seen : o.model_loaded = (o.state = "Ready")

\* Probes were answered in Loading, in Failed and in Ready.
C6_Witness ==
    /\ \E o \in seen : o.state = "Loading"
    /\ \E o \in seen : o.state = "Failed"
    /\ \E o \in seen : o.state = "Ready"

\* C7: in every lifecycle state /health and /status answer 200 (/health with
\* status "healthy") and model_loaded is true exactly when the current manager
\* is Ready.
C7_ProbesAlways200 ==
    last.op \in Probes =>
        /\ last.code = 200
        /\ last.op = "health" => last.status = "healthy"
        /\ last.model_loaded = (CurrentState = "Ready")

\* /health answered while the current manager is Failed.
C7_Witness ==
    /\ last.op = "health"
    /\ CurrentState = "Failed"
    /\ last.code = 200

\* The initialize() of an instance constructed by restart_model() finishes in
\* this step.
RestartFinishes(m) ==
    /\ heap[m].origin = "restart"
    /\ ~Finished(heap[m])
    /\ Finished(heap'[m])

\* C8 as claimed: when the initialize() of a restart finishes, the current
\* manager is that instance, Ready if its validation returned and Failed if not.
C8_FinishedRestartIsCurrent ==
    [][\A m \in Instances :
          RestartFinishes(m) =>
              /\ inference_engine' = m
              /\ ModelState(heap'[m]) = IF Validated(heap'[m]) THEN "Ready" ELSE "Failed"
      ]_vars

\* C8, amended: when the initialize() of a restart finishes, that instance is
\* Ready if its validation returned and Failed if not, and the current manager
\* is the instance of the most recent restart (that instance, unless a later
\* restart has replaced it); no step puts an earlier instance back.
C8_LatestRestartIsCurrent ==
    [][/\ \A m \in Instances :
              RestartFinishes(m) =>
                  /\ inference_engine' = Len(heap')
                  /\ ModelState(heap'[m]) =
                         IF Validated(heap'[m]) THEN "Ready" ELSE "Failed"
       /\ inference_engine' >= inference_engine
      ]_vars

\* A restart replaced a Ready instance by one that failed, and the failed one
\* stays current.
C8_Witness ==
    /\ Len(heap) = 2
    /\ heap[2].origin = "restart"
    /\ Finished(heap[2]) /\ ~heap[2].model_loaded
    /\ heap[1].model_loaded
    /\ inference_engine = 2

\* C9: from startup on the global names one constructed instance, and what a
\* handler reads is a constructed instance: never None, never a partial one.
C9_OneConstructedManager ==
    /\ app_state \in {"startup", "serving"} =>
           /\ inference_engine \in Instances
           /\ Constructed(heap[inference_engine])
    /\ app_state = "serving" =>
           /\ last.op \in {"health", "status", "complete"} =>
                  (last.engine \in Instances /\ Constructed(heap[last.engine]))
           /\ \A r \in 1..Len(requests) :
                  (requests[r].engine \in Instances
                      /\ Constructed(heap[requests[r].engine]))

\* /health reads the instance a restart has just swapped in.
C9_Witness ==
    /\ app_state = "serving"
    /\ last.op = "health"
    /\ last.engine = 2
    /\ heap[2].pc = "list"
    /\ inference_engine = 2

\* C10: once requests are served, a step changes inference_engine only if it is
\* the start of restart_model(): it takes a restart task, constructs an instance
\* and makes it current.
C10_OnlyRestartSwaps ==
    [][(Serving /\ inference_engine' # inference_engine) =>
          /\ restart_tasks' = restart_tasks - 1
          /\ Len(heap') = Len(heap) + 1
          /\ heap'[Len(heap')].origin = "restart"
          /\ inference_engine' = Len(heap')
          /\ last'.op = "none"
      ]_vars

\* After a restart both initializations have finished and a completion request
\* was answered; the restart's instance is still current.
C10_Witness ==
    /\ app_state = "serving"
    /\ inference_engine = 2
    /\ Finished(heap[1]) /\ Finished(heap[2])
    /\ \E r \in 1..Len(requests) : requests[r].status = "answered"
    /\ last.op = "health"

\* The server under the scheduling asyncio guarantees: a task that is ready to
\* run (the startup task, a restart_model background task) is run.  Nothing is
\* assumed of the clients or of the backend.
SpecSched ==
    /\ Spec
    /\ WF_vars(initialize_model /\ Quiet)
    /\ WF_vars(restart_model /\ Quiet)

\* C11: a request waiting for the backend is left alone by every other step (a
\* restart included), and is answered 200 or 500 from the one generate call of
\* the engine it was dispatched to: not 503, not the new engine.
C11_InFlightKeepsItsEngine ==
    [][\A r \in 1..Len(requests) :
          requests[r].status = "pending" =>
              \/ requests'[r] = requests[r]
              \/ /\ requests'[r].status = "answered"
                 /\ requests'[r].code \in {200, 500}
                 /\ requests'[r].engine = requests[r].engine
                 /\ requests'[r].served_by = requests[r].engine
                 /\ requests'[r].gen_calls = 1
                 /\ last'.op = "complete"
                 /\ last'.code = requests'[r].code
                 /\ last'.engine = requests[r].engine
      ]_vars

\* A request dispatched to instance 1 is answered 200 after a restart has made
\* instance 2, not yet loaded, the current manager.
C11_Witness ==
    /\ last.op = "complete"
    /\ last.code = 200
    /\ last.engine = 1
    /\ inference_engine = 2
    /\ ~heap[2].model_loaded
    /\ requests[1].served_by = 1

\* C12: POST /restart can be answered in every state in which requests are
\* served, is answered 200, and its answer constructs and swaps nothing: it
\* leaves one more restart_model task to run afterwards.
C12_RestartAnswersAtOnce ==
    /\ [](Serving => ENABLED restart_server)
    /\ [][last'.op = "restart" =>
             /\ last'.code = 200
             /\ heap' = heap
             /\ inference_engine' = inference_engine
             /\ restart_tasks' = restart_tasks + 1
         ]_vars

\* /restart answered while the instance of an earlier restart is still loading.
C12_Witness ==
    /\ last.op = "restart"
    /\ last.code = 200
    /\ Len(heap) = 1
    /\ heap[1].origin = "restart"
    /\ Loading(heap[1])
    /\ restart_tasks = 1

\* C13: a request whose generate call raised was accepted while Ready and is
\* answered 500 with the exception's message in the detail; the server goes on
\* serving.
C13_BackendErrorIs500 ==
    \A r \in 1..Len(requests) :
        requests[r].error # "" =>
            /\ requests[r].ready
            /\ requests[r].status = "answered"
            /\ requests[r].code = 500
            /\ requests[r].detail = <<"Failed to generate completion: ", requests[r].error>>
            /\ Serving
            /\ ENABLED health_check
            /\ ENABLED get_completion

\* After a generation timed out, /health is answered.
C13_Witness ==
    /\ \E r \in 1..Len(requests) :
           requests[r].error = "GenerationTimeout" /\ requests[r].code = 500
    /\ last.op = "health"
    /\ last.code = 200

\* C14: generate is called at most once for a request: a request waiting for the
\* backend has made one call, and one whose call raised is answered after that
\* one call.
C14_GenerateAtMostOnce ==
    \A r \in 1..Len(requests) :
        /\ requests[r].gen_calls <= 1
        /\ requests[r].status = "pending" => requests[r].gen_calls = 1
        /\ requests[r].error # "" =>
               (requests[r].status = "answered" /\ requests[r].gen_calls = 1)

\* A request failed after its single generate call.
C14_Witness ==
    \E r \in 1..Len(requests) :
        /\ requests[r].code = 500
        /\ requests[r].error = "BackendUnavailable"
        /\ requests[r].gen_calls = 1

\* C15: every completion request is eventually answered, whatever the backend
\* does (a call that never returns ends in a timeout).
C15_EveryRequestAnswered ==
    \A r \in 1..MaxReq :
        (Len(requests) >= r) ~> (Len(requests) >= r /\ requests[r].status = "answered")

\* C24: the backend calls of an initialize() come in one order: list first;
\* pull exactly when the list returned without the model; then one validation
\* generate; and no generate when list raised.
C24_InitializeCallOrder ==
    \A m \in Instances :
        LET l == heap[m].log
            pc == heap[m].pc
        IN /\ pc \in {"new", "list"} => l = <<>>
           /\ pc = "pull" => l = << <<"list", "absent">> >>
           /\ pc = "generate" =>
                  \/ l = << <<"list", "present">> >>
                  \/ Len(l) = 2 /\ l[1] = <<"list", "absent">> /\ l[2][1] = "pull"
           /\ pc = "done" =>
                  \/ l = << <<"list", "raise">> >>
                  \/ Len(l) = 2 /\ l[1] = <<"list", "present">> /\ l[2][1] = "generate"
                  \/ /\ Len(l) = 3
                     /\ l[1] = <<"list", "absent">>
                     /\ l[2][1] = "pull"
                     /\ l[3][1] = "generate"

\* One initialize() ended at a list that raised; another pulled, then validated.
C24_Witness ==
    /\ Len(heap) = 2
    /\ heap[1].log = << <<"list", "raise">> >>
    /\ heap[2].log = << <<"list", "absent">>, <<"pull", "ok">>, <<"generate", "ok">> >>

\* The backend answers some awaited call of some initialize().
BackendAnswers ==
    \E m \in 1..Len(heap) :
        \/ \E present \in BOOLEAN : list_returns(m, present)
        \/ list_raises(m)
        \/ pull_returns(m)
        \/ pull_raises(m)
        \/ validate_returns(m)
        \/ validate_raises(m)

\* The server with a backend that answers: ready tasks are run, and while an
\* initialize() awaits the backend, the backend answers one.
SpecAnswering ==
    /\ SpecSched
    /\ WF_vars(BackendAnswers /\ Quiet)

\* Every initialize() that was started has ended, its instance Ready or Failed.
AllStartedEnded ==
    \A m \in Instances :
        heap[m].pc # "new" =>
            (Finished(heap[m]) /\ ModelState(heap[m]) \in {"Ready", "Failed"})

\* C25: with a backend that answers, Loading does not last: from some point on
\* (the restarts having stopped) every initialize() that was started has left
\* its instance Ready or Failed, and the current manager, if there is one, is
\* Ready or Failed.
C25_LoadingEnds ==
    <>[](/\ AllStartedEnded
         /\ inference_engine # None => CurrentState \in {"Ready", "Failed"})

\* The startup instance and the instance of a restart have both finished.
C25_Witness ==
    /\ Len(heap) = 2
    /\ heap[1].origin = "lifespan" /\ heap[2].origin = "restart"
    /\ ModelState(heap[1]) = "Failed"
    /\ ModelState(heap[2]) = "Ready"
    /\ inference_engine = 2
    /\ restart_tasks = 0

\* The four lifecycle states as conditions on an instance.
IsUninitialized(inst) == inst.pc = "new"
IsLoading(inst) == inst.pc \in {"list", "pull", "generate"}
IsReady(inst) == inst.model_loaded
IsFailed(inst) == inst.pc = "done" /\ ~inst.model_loaded
StatesOf(inst) ==
    {st \in {"Uninitialized", "Loading", "Ready", "Failed"} :
        \/ st = "Uninitialized" /\ IsUninitialized(inst)
        \/ st = "Loading" /\ IsLoading(inst)
        \/ st = "Ready" /\ IsReady(inst)
        \/ st = "Failed" /\ IsFailed(inst)}

\* A restart_model task starts in this step.
RestartRuns == restart_tasks' = restart_tasks - 1

\* C26: every instance is in exactly one lifecycle state; every event has an
\* outcome in the state it meets: a Loading instance accepts both answers of
\* the call it awaits, /restart is accepted whenever requests are served, a
\* scheduled restart can run, and when it runs (whatever the state of the
\* current manager, Uninitialized and Loading included) a new instance becomes
\* the current manager with its initialize() under way.
C26_OneStateTotalTransitions ==
    /\ [](\A m \in Instances :
             /\ Cardinality(StatesOf(heap[m])) = 1
             /\ heap[m].pc = "list" =>
                    (ENABLED list_returns(m, TRUE) /\ ENABLED list_raises(m))
             /\ heap[m].pc = "pull" => (ENABLED pull_returns(m) /\ ENABLED pull_raises(m))
             /\ heap[m].pc = "generate" =>
                    (ENABLED validate_returns(m) /\ ENABLED validate_raises(m)))
    /\ [](Serving => ENABLED restart_server)
    /\ [](restart_tasks > 0 => ENABLED restart_model)
    /\ [][RestartRuns =>
              /\ Len(heap') = Len(heap) + 1
              /\ inference_engine' = Len(heap')
              /\ heap'[Len(heap')].origin = "restart"
              /\ StatesOf(heap'[Len(heap')]) = {"Loading"}
              /\ \A m \in Instances : heap'[m] = heap[m]
         ]_vars

\* A restart ran while the startup instance was awaiting the pull.
C26_Witness ==
    /\ Len(heap) = 2
    /\ heap[1].origin = "lifespan" /\ heap[1].pc = "pull"
    /\ heap[2].origin = "restart" /\ heap[2].pc = "list"
    /\ inference_engine = 2

\* C27: a step of a completion request (its dispatch, its answer, the failure
\* of its backend call) changes no instance and not the current manager, and
\* no step at all takes model_loaded of an instance from true to false.
C27_CompletionsLeaveLifecycle ==
    [][/\ requests' # requests => (heap' = heap /\ inference_engine' = inference_engine)
       /\ \A m \in Instances : heap[m].model_loaded => heap'[m].model_loaded
      ]_vars

\* The backend call of a request failed and /health still reports the model
\* loaded on the same manager.
C27_Witness ==
    /\ \E r \in 1..Len(requests) :
           /\ requests[r].code = 500
           /\ requests[r].error # ""
           /\ requests[r].engine = inference_engine
    /\ last.op = "health"
    /\ last.model_loaded
    /\ CurrentState = "Ready"

\* The current manager was swapped in by a restart and its initialize() has not
\* succeeded.
RestartWindow ==
    /\ inference_engine # None
    /\ heap[inference_engine].origin = "restart"
    /\ ~heap[inference_engine].model_loaded

C29_LatestSwapIsCurrent ==
    /\ [](/\ heap # <<>> => inference_engine = Len(heap)
          /\ last.op \in Probes =>
                 /\ last.engine = inference_engine
                 /\ last.model_loaded =
                        (inference_engine # None /\ heap[inference_engine].model_loaded)
          /\ (last.op = "complete" /\ last.code = 503) => last.engine = inference_engine)
    /\ [][\A m \in Instances :
              (m # inference_engine /\ heap'[m] # heap[m]) =>
                  /\ inference_engine' = inference_engine
                  /\ heap'[inference_engine] = heap[inference_engine]
                  /\ Len(heap') = Len(heap)
         ]_vars

\* The startup instance is Ready but has been replaced; /status reports the
\* restart's instance, still loading.
C29_Witness ==
    /\ Len(heap) = 2
    /\ heap[1].origin = "lifespan" /\ heap[1].model_loaded
    /\ heap[2].origin = "restart" /\ Loading(heap[2])
    /\ inference_engine = 2
    /\ last.op = "status"
    /\ last.engine = 2
    /\ ~last.model_loaded

\* C30: initialize() is called at most once on an instance: never on one whose
\* initialize() is under way or has returned, so no second run can take
\* model_loaded back from true to false.
C30_InitializeOncePerInstance ==
    /\ [](\A m \in Instances :
             /\ heap[m].initialize_calls <= 1
             /\ heap[m].initialize_calls = 0 <=> heap[m].pc = "new")
    /\ [][\A m \in Instances :
              /\ heap'[m].initialize_calls > heap[m].initialize_calls => heap[m].pc = "new"
              /\ heap[m].pc = "done" => heap'[m] = heap[m]
         ]_vars

\* The startup task and a restart task have each run initialize() to the end,
\* on different instances.
C30_Witness ==
    /\ Len(heap) = 2
    /\ heap[1].origin = "lifespan" /\ heap[2].origin = "restart"
    /\ Finished(heap[1]) /\ Finished(heap[2])
    /\ heap[1].initialize_calls = 1
    /\ heap[2].initialize_calls = 1
    /\ heap[1].model_loaded

----------------------------------------------------------------------------
(* One completion request followed through get_completion and             *)
(* generate_completion: SpecCompletion draws the request body, the         *)
(* manager's model_loaded flag, the two clock readings and the backend's   *)
(* text.  Times are in hundredths of a second; other reals are fractions   *)
(* <<numerator, denominator>> with a positive denominator.                 *)

RECURSIVE Gcd(_, _)
Gcd(a, b) == IF b = 0 THEN a ELSE Gcd(b, a % b)
Abs(n) == IF n < 0 THEN 0 - n ELSE n
\* A fraction in lowest terms.
Frac(n, d) == <<n \div Gcd(Abs(n), d), d \div Gcd(Abs(n), d)>>
FracLess(a, b) == a[1] * b[2] < b[1] * a[2]
FracAdd(a, b) == Frac(a[1] * b[2] + b[1] * a[2], a[2] * b[2])
FracMul(a, b) == Frac(a[1] * b[1], a[2] * b[2])
FracDiv(a, b) ==
    IF b[1] < 0 THEN Frac((0 - a[1]) * b[2], a[2] * (0 - b[1]))
    ELSE Frac(a[1] * b[2], a[2] * b[1])
\* Python's min and max of two arguments return the first one on a tie.
py_min(a, b) == IF FracLess(b, a) THEN b ELSE a
py_max(a, b) == IF FracLess(a, b) THEN b ELSE a
Seconds(hundredths) == Frac(hundredths, 100)

\* A field of the JSON body: left out, null, or a value.
Absent == [kind |-> "absent"]
Null == [kind |-> "null"]
Given(v) == [kind |-> "value", value |-> v]

\* ServerConfig(): the defaults of the dataclass.
config == [max_tokens |-> 100, temperature |-> Frac(1, 10)]

\* CompletionRequest: pydantic fills a field that was left out with its
\* default and keeps an explicit null as None.
CompletionRequest(body) ==
    [code |-> body.code,
     language |-> body.language,
     position |-> body.position,
     filename |-> body.filename,
     max_tokens |-> IF body.max_tokens = Absent THEN Given(100) ELSE body.max_tokens,
     temperature |-> IF body.temperature = Absent THEN Given(Frac(1, 10))
                     ELSE body.temperature]

\* x or d: d when x is None or a zero, else x.
py_or(x, zero, d) == IF x = Null THEN d ELSE IF x.value = zero THEN d ELSE x.value

\* The options dictionary handed to client.generate.
generate_options(request) ==
    [num_predict |-> py_or(request.max_tokens, 0, config.max_tokens),
     temperature |-> py_or(request.temperature, Frac(0, 1), config.temperature),
     top_p |-> Frac(9, 10),
     stop |-> << <<NL, NL>>,
                 <<Backtick, Backtick, Backtick>>,
                 <<"<", "/", "c", "o", "d", "e", ">">> >>]

prepare_prompt_by_language(request) ==
    <<"<", "P", "R", "E", ">", " ">> \o request.language \o <<NL>> \o request.code
        \o <<"<", "S", "U", "F", ">", "<", "M", "I", "D", ">">>

\* _prepare_prompt: the f-string "<PRE> {filename}\n{code}<SUF><MID>".
prepare_prompt(request) ==
    <<"<", "P", "R", "E", ">", " ">> \o request.filename \o <<NL>> \o request.code
        \o <<"<", "S", "U", "F", ">", "<", "M", "I", "D", ">">>

confidence_cap_one(length, processing_time) ==
    py_min(Frac(1, 1),
           FracAdd(FracMul(FracDiv(Frac(length, 1), Frac(100, 1)), Frac(8, 10)),
                   FracMul(FracDiv(Frac(1, 1), py_max(Seconds(processing_time), Frac(1, 10))),
                           Frac(2, 10))))

\* min(0.95, len(completion) / 100.0 * 0.8 + (1.0 / max(processing_time, 0.1)) * 0.2)
confidence(length, processing_time) ==
    py_min(Frac(95, 100),
           FracAdd(FracMul(FracDiv(Frac(length, 1), Frac(100, 1)), Frac(8, 10)),
                   FracMul(FracDiv(Frac(1, 1), py_max(Seconds(processing_time), Frac(1, 10))),
                           Frac(2, 10))))

Rep(c, n) == [i \in 1..n |-> c]

\* Request bodies: two sources, two file names, two languages, two cursor
\* positions, and each optional field left out, null, or given.
Bodies ==
    [code : {<<"x">>, <<"x", NL, "y">>},
     language : {<<"p", "y">>, <<"j", "s">>},
     position : {[line |-> 0, character |-> 0], [line |-> 1, character |-> 1]},
     filename : {<<"a", ".", "p", "y">>, <<"b", ".", "j", "s">>},
     max_tokens : {Absent, Null, Given(50)},
     temperature : {Absent, Null, Given(Frac(0, 1)), Given(Frac(7, 10))}]

\* What time.time() may return, in hundredths of a second.  It reads the
\* system clock, which can be set back between two readings.
ClockReadings == {0, 5, 10, 50, 300}

\* Texts the backend may return: nothing, an indented statement between
\* blank lines, fifty characters, a hundred and twenty characters.
BackendTexts ==
    { <<>>,
      <<NL, " ", " ", " ", " ", "p", "r", "i", "n", "t", "(", "'", "h", "i", "'", ")", NL, NL>>,
      Rep("x", 50),
      Rep("x", 120) }

InitCompletion ==
    /\ app_state = "imported"
    /\ inference_engine = None
    /\ heap = <<>>
    /\ restart_tasks = 0
    /\ requests = <<>>
    /\ last = NoAnswer
    /\ seen = {}
    /\ text = NoText
    /\ \E body \in Bodies, loaded \in BOOLEAN :
          job = [pc |-> "received", model_loaded |-> loaded, body |-> body,
                 request |-> CompletionRequest(body),
                 start_time |-> 0, prompt |-> <<>>, options |-> <<>>,
                 raw |-> <<>>, suggestion |-> <<>>, end_time |-> 0,
                 post_process_time |-> 0, processing_time |-> 0,
                 confidence |-> Frac(0, 1), code |-> 0, detail |-> <<>>]

Frame_job == UNCHANGED <<app_state, inference_engine, heap, restart_tasks, requests, last, seen, text>>

\* get_completion's guard: the manager is not loaded.
complete_refused ==
    /\ job.pc = "received"
    /\ ~job.model_loaded
    /\ job' = [job EXCEPT !.pc = "answered", !.code = 503,
                          !.detail = <<"Model not loaded">>]
    /\ Frame_job

\* generate_completion up to the await: the clock is read, the prompt and
\* the options are built and client.generate is called.
generate_call(now) ==
    /\ job.pc = "received"
    /\ job.model_loaded
    /\ job' = [job EXCEPT !.pc = "awaiting", !.start_time = now,
                          !.prompt = prepare_prompt(job.request),
                          !.options = generate_options(job.request)]
    /\ Frame_job

\* How long _post_process_completion may run, in hundredths of a second.
PostProcessTimes == {0, 5}

\* client.generate returns: the text is stripped, the clock is read and
\* processing_time computed from it, then the text is post-processed, which
\* takes `spent`; get_completion computes the confidence.
generate_returns(raw, now, spent) ==
    /\ job.pc = "awaiting"
    /\ LET stripped == strip(raw)
           processing_time == now - job.start_time
           completion == post_process_completion(stripped)
       IN job' = [job EXCEPT !.pc = "answered", !.code = 200, !.raw = raw,
                             !.end_time = now,
                             !.post_process_time = spent,
                             !.suggestion = completion,
                             !.processing_time = processing_time,
                             !.confidence = confidence(Len(completion), processing_time)]
    /\ Frame_job

\* client.generate raises: generate_completion re-raises, get_completion
\* answers 500.
generate_raises(e) ==
    /\ job.pc = "awaiting"
    /\ job' = [job EXCEPT !.pc = "answered", !.code = 500,
                          !.detail = <<"Failed to generate completion: ", e>>]
    /\ Frame_job

NextCompletion ==
    \/ complete_refused
    \/ \E now \in ClockReadings : generate_call(now)
    \/ \E raw \in BackendTexts, now \in ClockReadings, spent \in PostProcessTimes :
          generate_returns(raw, now, spent)
    \/ \E e \in BackendErrors : generate_raises(e)

SpecCompletion == InitCompletion /\ [][NextCompletion]_vars

Answered200 == job.pc = "answered" /\ job.code = 200
Issued == job.pc = "awaiting" \/ (job.pc = "answered" /\ job.code \in {200, 500})

\* C16: when the manager is loaded and the backend returns non-empty text,
\* the returned confidence lies in [0, 0.95] and the returned processing
\* time is not negative.
C16_ConfidenceAndTimeInRange ==
    (Answered200 /\ job.model_loaded /\ job.raw # <<>>) =>
        /\ ~FracLess(job.confidence, Frac(0, 1))
        /\ ~FracLess(Frac(95, 100), job.confidence)
        /\ job.processing_time >= 0

\* C17: the returned confidence is (length * k + 2500) / (125 * k) when that is
\* below 19/20 and 19/20 otherwise, where length is the length of the
\* suggestion and k is the processing time in hundredths of a second, raised
\* to 10 when it is below 10 (this is min(0.95, length/100 * 0.8 + 0.2 / (k/100)));
\* it lies in [0, 0.95]; length 50 with half a second gives 0.8.
C17_ConfidenceFormula ==
    Answered200 =>
        LET n == Len(job.suggestion)
            k == IF job.processing_time < 10 THEN 10 ELSE job.processing_time
            c == job.confidence
            uncapped == n * k + 2500
        IN /\ c[2] > 0
           /\ IF 4 * uncapped < 475 * k
              THEN c[1] * 125 * k = c[2] * uncapped
              ELSE c[1] * 20 = c[2] * 19
           /\ c[1] >= 0
           /\ c[1] * 100 <= 95 * c[2]
           /\ (n = 50 /\ job.processing_time = 50) => c[1] * 10 = 8 * c[2]
           /\ job.processing_time < 10 => c[1] * 100 = 95 * c[2]

C17_Witness ==
    /\ Answered200
    /\ Len(job.suggestion) = 50
    /\ job.processing_time = 50
    /\ job.confidence[1] * 10 = 8 * job.confidence[2]

\* C18: the options handed to the backend carry the request's max_tokens and
\* temperature whenever the body gives them, the configured defaults when it
\* does not, top_p 0.9 and the three stop sequences.
C18_OptionsFollowRequest ==
    Issued =>
        /\ job.options.num_predict =
              (IF job.body.max_tokens.kind = "value" THEN job.body.max_tokens.value
               ELSE config.max_tokens)
        /\ job.options.temperature =
              (IF job.body.temperature.kind = "value" THEN job.body.temperature.value
               ELSE config.temperature)
        /\ job.options.top_p = Frac(9, 10)
        /\ Len(job.options.stop) = 3

\* C19: the prompt sent to the backend is "<PRE>", a space, the file name, a
\* line break, the code, "<SUF>", "<MID>", and every request with the same
\* code and file name gets the same prompt, whatever its language, position,
\* max_tokens and temperature.
C19_PromptFormat ==
    Issued =>
        LET p == job.prompt
            f == job.request.filename
            c == job.request.code
        IN /\ Len(p) = 17 + Len(f) + Len(c)
           /\ SubSeq(p, 1, 5) = <<"<", "P", "R", "E", ">">>
           /\ p[6] = " "
           /\ SubSeq(p, 7, 6 + Len(f)) = f
           /\ p[7 + Len(f)] = NL
           /\ SubSeq(p, 8 + Len(f), 7 + Len(f) + Len(c)) = c
           /\ SubSeq(p, 8 + Len(f) + Len(c), Len(p))
                 = <<"<", "S", "U", "F", ">", "<", "M", "I", "D", ">">>
           /\ \A b \in Bodies :
                 (b.code = c /\ b.filename = f) => prepare_prompt(CompletionRequest(b)) = p

C19_Witness ==
    /\ Issued
    /\ job.prompt = <<"<", "P", "R", "E", ">", " ", "a", ".", "p", "y", NL,
                      "x", NL, "y", "<", "S", "U", "F", ">", "<", "M", "I", "D", ">">>
    /\ job.request.language = <<"j", "s">>
    /\ job.body.temperature = Given(Frac(7, 10))

\* C23: the returned processing time runs from the start of
\* generate_completion to the end of post-processing: it includes the time the
\* post-processor took.
C23_TimeCoversPostProcess ==
    Answered200 =>
        job.processing_time = (job.end_time + job.post_process_time) - job.start_time

----------------------------------------------------------------------------
(* The post-processor on its own: SpecText draws a raw model output and    *)
(* passes it through _post_process_completion, then passes the result      *)
(* through it a second time.                                               *)

MaxPieces == 3

\* What a raw output is assembled from: content, whitespace, a line break, a
\* blank-line gap, artifact tokens, and the characters artifact tokens are made of.
Pieces ==
    { <<"x">>, <<" ">>, <<NL>>, <<NL, NL>>, <<"<">>,
      <<"<", "M", "I", "D", ">">>, <<"M", "I", "D", ">">>,
      <<Backtick, Backtick, Backtick>>,
      <<"<", "c", "o", "d", "e", ">">>, <<"<", "/", "c", "o", "d", "e", ">">> }

RECURSIVE Concats(_)
Concats(n) ==
    IF n = 0 THEN {<<>>}
    ELSE Concats(n - 1) \cup {t \o p : t \in Concats(n - 1), p \in Pieces}

\* An indented statement between blank lines.
ExampleText ==
    <<NL, " ", " ", " ", " ", "p", "r", "i", "n", "t", "(", "'", "h", "i", "'", ")", NL, NL>>

Texts == Concats(MaxPieces) \cup {ExampleText}

InitText ==
    /\ app_state = "imported"
    /\ inference_engine = None
    /\ heap = <<>>
    /\ restart_tasks = 0
    /\ requests = <<>>
    /\ last = NoAnswer
    /\ seen = {}
    /\ job = NoJob
    /\ \E raw \in Texts : text = [pc |-> "raw", raw |-> raw, once |-> <<>>, twice |-> <<>>]

Frame_text == UNCHANGED <<app_state, inference_engine, heap, restart_tasks, requests, last, seen, job>>

post_process_once ==
    /\ text.pc = "raw"
    /\ text' = [text EXCEPT !.pc = "once", !.once = post_process_completion(text.raw)]
    /\ Frame_text

post_process_again ==
    /\ text.pc = "once"
    /\ text' = [text EXCEPT !.pc = "twice", !.twice = post_process_completion(text.once)]
    /\ Frame_text

NextText ==
    \/ post_process_once
    \/ post_process_again

SpecText == InitText /\ [][NextText]_vars

\* C20: post-processing is idempotent: passing an already processed text
\* through the post-processor again returns it unchanged.
C20_PostProcessIdempotent ==
    text.pc = "twice" => text.twice = text.once

\* C21: the processed output contains none of the artifact tokens.
C21_NoArtifactLeft ==
    text.pc \in {"once", "twice"} =>
        \A i \in 1..Len(artifacts) : Occurrences(text.once, artifacts[i]) = {}

\* The lines of a raw output once the artifact tokens are taken out.
RawLines(raw) == split_lines(remove_each(strip(raw), artifacts))
Blank(line) == \A i \in 1..Len(line) : line[i] \in Whitespace
ContentLines(ls) == {i \in 1..Len(ls) : ~Blank(ls[i])}
FirstContent(ls) == CHOOSE i \in ContentLines(ls) : \A j \in ContentLines(ls) : i <= j
\* The first blank line after the first content line, or one past the end.
FirstGap(ls) ==
    CHOOSE g \in (FirstContent(ls) + 1)..(Len(ls) + 1) :
        /\ g = Len(ls) + 1 \/ Blank(ls[g])
        /\ \A j \in (FirstContent(ls) + 1)..(g - 1) : ~Blank(ls[j])

\* C22: the processed output is the content lines from the first content line
\* up to the first blank line after it, trimmed: blank lines before the content
\* are skipped, nothing after the gap is kept; "\n    print('hi')\n\n" gives
\* "print('hi')".
C22_KeepsUpToFirstGap ==
    text.pc \in {"once", "twice"} =>
        LET ls == RawLines(text.raw)
        IN /\ text.once =
                 IF ContentLines(ls) = {} THEN <<>>
                 ELSE strip(join_lines(SubSeq(ls, FirstContent(ls), FirstGap(ls) - 1)))
           /\ text.raw = ExampleText =>
                 text.once = <<"p", "r", "i", "n", "t", "(", "'", "h", "i", "'", ")">>

\* Content, a blank-line gap, then more content: only the first part is kept.
C22_Witness ==
    /\ text.pc = "once"
    /\ text.raw = <<"x", NL, NL, "x">>
    /\ text.once = <<"x">>
====
